---- MODULE Spec2Model ----
(***************************************************************************)
(* Model of the panel layout engine, the dimension model and the           *)
(* recomputation coordinator of src/shop2.py (WallcoveringCalculatorUI).   *)
(*                                                                         *)
(* Lengths are Python floats in the source.  They are modelled as exact    *)
(* rationals [n |-> numerator, d |-> denominator] in lowest terms, so      *)
(* that equality of two lengths is structural equality.  A fraction       *)
(* string is the tuple of its numbers ("0" is <<0>>, "n/d" is <<n, d>>),   *)
(* and an entered dimension <<ft, in, i>> holds the index i of its         *)
(* fraction in fraction_options.                                           *)
(***************************************************************************)
EXTENDS Integers, Sequences, FiniteSets, TLC

VARIABLES
    \* ---- UI variables and instance attributes read by the layout engine
    wall_width,            \* wall_width_{feet,inches,fraction}_var  <<ft, in, 16ths>>
    wall_height,           \* wall_height_{feet,inches,fraction}_var
    panel_width,           \* panel_width_{feet,inches,fraction}_var
    start_seam,            \* start_seam_{feet,inches,fraction}_var
    use_start_seam_var,    \* BooleanVar
    center_panels_var,     \* BooleanVar
    equal_panels_var,      \* BooleanVar
    use_equal_panels,      \* self.use_equal_panels (copy taken by each computation)
    wall_dimensions,       \* self.wall_dimensions (copy taken by each computation)
    panel_count_var,       \* panel_count_var (already an integer)
    center_panel_count_var,
    custom_panel_widths,   \* dict  id -> inches
    split_panels,          \* dict  original id -> split record
    selected_panels,       \* list of selected panel ids
    wall_panels,           \* the panel list last drawn / stored by calculate()
    wall_objects,          \* list of WallObject records
    next_object_id,        \* id of the next WallObject
    last_op,               \* history: the last handler and what it observed
    edits,                 \* history: number of handlers run so far
    \* ---- recomputation coordinator
    calculation_in_progress,
    pending_calculation,
    switching_walls,
    idle_calls,            \* number of queued after_idle(self.calculate) callbacks
    baseboard_timer,       \* self._baseboard_timer is armed: after(100, self.calculate)
    stack,                 \* call stack of the handlers that are executing
    coord,                 \* history of the coordinator (counters, see CoordInit)
    \* ---- dimension model harness
    conv                   \* input and output of one conversion round trip

layout_vars == <<wall_width, wall_height, panel_width, start_seam,
                 use_start_seam_var, center_panels_var, equal_panels_var,
                 use_equal_panels, wall_dimensions, panel_count_var,
                 center_panel_count_var,
                 custom_panel_widths, split_panels, selected_panels,
                 wall_panels, wall_objects, next_object_id, last_op, edits>>
coord_vars == <<calculation_in_progress, pending_calculation, switching_walls,
                idle_calls, baseboard_timer, stack, coord>>
vars == <<layout_vars, coord_vars, conv>>

----------------------------------------------------------------------------
(* Exact rational arithmetic standing for the source's float arithmetic.   *)

Abs(i) == IF i < 0 THEN -i ELSE i

RECURSIVE GCD(_, _)
GCD(a, b) == IF b = 0 THEN a ELSE GCD(b, a % b)

Rat(n, d) ==
    LET g == GCD(Abs(n), Abs(d))
        s == IF d < 0 THEN -1 ELSE 1
    IN  [n |-> (s * n) \div g, d |-> (s * d) \div g]

RInt(i) == [n |-> i, d |-> 1]
\* sums go through the least common denominator and values over the same
\* denominator are compared by their numerators, which keeps the
\* intermediate products small
RAdd(a, b) ==
    LET g == GCD(a.d, b.d)
    IN  Rat(a.n * (b.d \div g) + b.n * (a.d \div g), (a.d \div g) * b.d)
RSub(a, b) ==
    LET g == GCD(a.d, b.d)
    IN  Rat(a.n * (b.d \div g) - b.n * (a.d \div g), (a.d \div g) * b.d)
RMul(a, b) == Rat(a.n * b.n, a.d * b.d)
RDiv(a, b) == Rat(a.n * b.d, a.d * b.n)
RLt(a, b) ==
    IF a.d = b.d THEN a.n < b.n
    ELSE LET g == GCD(a.d, b.d) IN a.n * (b.d \div g) < b.n * (a.d \div g)
RLe(a, b) ==
    IF a.d = b.d THEN a.n <= b.n
    ELSE LET g == GCD(a.d, b.d) IN a.n * (b.d \div g) <= b.n * (a.d \div g)
RAbs(a) == [n |-> Abs(a.n), d |-> a.d]
RMin(a, b) == IF RLe(a, b) THEN a ELSE b
RFloor(a) == a.n \div a.d
\* Python's a // b and a % b on non-negative floats
RFloorDiv(a, b) == RFloor(RDiv(a, b))
RMod(a, b) == RSub(a, RMul(RInt(RFloorDiv(a, b)), b))

----------------------------------------------------------------------------
(* Dimension model                                                         *)

\* A fraction string "n/d" is the pair <<n, d>>, and the string "0" is <<0>>.
\* fraction_options is the list every fraction combobox offers; a dimension
\* <<feet, inches, i>> of the layout holds the i-th of them (from 0).
fraction_options ==
    << <<0>>,    <<1, 16>>, <<1, 8>>, <<3, 16>>, <<1, 4>>, <<5, 16>>,
       <<3, 8>>, <<7, 16>>, <<1, 2>>, <<9, 16>>, <<5, 8>>, <<11, 16>>,
       <<3, 4>>, <<13, 16>>, <<7, 8>>, <<15, 16>> >>

\* fraction_to_decimal(fraction_str): "0" is 0.0, "n/d" is split at the
\* slash and divided, any other number is itself
fraction_to_decimal(fraction_str) ==
    IF fraction_str = <<0>> THEN Rat(0, 1)
    ELSE IF Len(fraction_str) = 2
         THEN RDiv(RInt(fraction_str[1]), RInt(fraction_str[2]))
         ELSE RInt(fraction_str[1])

\* convert_to_inches(feet, inches, fraction_str)
convert_to_inches(feet, inches, fraction_str) ==
    RAdd(RInt(feet * 12 + inches), fraction_to_decimal(fraction_str))

\* the fractions dict of convert_to_feet_inches_fraction: its keys in
\* insertion order (as sixteenths) and the string each key maps to
FractionKeys == [i \in 1..16 |-> Rat(i - 1, 16)]
fractions ==
    << <<0>>,    <<1, 16>>, <<1, 8>>, <<3, 16>>, <<1, 4>>, <<5, 16>>,
       <<3, 8>>, <<7, 16>>, <<1, 2>>, <<9, 16>>, <<5, 8>>, <<11, 16>>,
       <<3, 4>>, <<13, 16>>, <<7, 8>>, <<15, 16>> >>

\* min(fractions.keys(), key=lambda x: abs(x - fraction_decimal)): the first
\* key in insertion order at the least distance
ClosestKey(fd) ==
    CHOOSE k \in 1..16 :
        /\ \A j \in 1..16 :
              RLe(RAbs(RSub(FractionKeys[k], fd)), RAbs(RSub(FractionKeys[j], fd)))
        /\ \A j \in 1..16 :
              (j < k) => RLt(RAbs(RSub(FractionKeys[k], fd)),
                             RAbs(RSub(FractionKeys[j], fd)))

\* an epsilon that pulls the total down instead of pushing it up
ConvEpsilonNoShift == Rat(-1, 1000)
ConvEpsilon == Rat(1, 1000)

\* convert_to_feet_inches_fraction(total_inches), returning
\* <<feet, whole_inches, closest_fraction>> for (Dimension(feet,
\* whole_inches), closest_fraction)
convert_to_feet_inches_fraction(total_inches) ==
    LET total     == RAdd(total_inches, ConvEpsilon)
        feet      == RFloorDiv(total, RInt(12))
        remaining == RMod(total, RInt(12))
        whole     == RFloor(remaining)
        fd        == RSub(remaining, RInt(whole))
        closest   == ClosestKey(fd)
        carry     == /\ RLt(RAbs(RSub(fd, FractionKeys[closest])), Rat(1, 100))
                     /\ RLt(Rat(94, 100), FractionKeys[closest])
        whole2    == IF carry THEN whole + 1 ELSE whole
        frac2     == IF carry THEN <<0>> ELSE fractions[closest]
    IN  IF whole2 = 12 THEN <<feet + 1, 0, frac2>>
                       ELSE <<feet, whole2, frac2>>

DimInches(dim) == convert_to_inches(dim[1], dim[2], fraction_options[dim[3] + 1])

----------------------------------------------------------------------------
(* Panel generators.  A panel is [id, x, width] with x and width in        *)
(* percent of the wall width.  The operators take the parameters they read *)
(* from self as a record s (see Cur below), so that a handler can run a    *)
(* computation on the values it has just written.                          *)

Panel(id, x, w) == [id |-> id, x |-> x, width |-> w]
Zero == RInt(0)
Hundred == RInt(100)
\* v / wall_width_inches_total * 100
Pct(v, wall) == RMul(RDiv(v, wall), Hundred)

Max2(a, b) == IF a >= b THEN a ELSE b
MaxOf(S) == CHOOSE m \in S : \A e \in S : e <= m

RECURSIVE SortedSeq(_)
\* sorted(d.keys())
SortedSeq(S) ==
    IF S = {} THEN <<>>
    ELSE LET m == CHOOSE e \in S : \A o \in S : e <= o
         IN  <<m>> \o SortedSeq(S \ {m})

RECURSIVE SumWidths(_, _)
\* sum(self.custom_panel_widths.values())
SumWidths(f, S) ==
    IF S = {} THEN Zero
    ELSE LET k == CHOOSE o \in S : TRUE
         IN  RAdd(f[k], SumWidths(f, S \ {k}))

CustomTotal(s) == SumWidths(s.custom, DOMAIN s.custom)
MaxCustomId == 10
\* a margin of nothing: the total may not exceed the wall width
CustomMarginNone == Rat(1, 1)
CustomMargin == Rat(105, 100)

\* use_custom_panels
UseCustomPanels(s, wall) ==
    /\ DOMAIN s.custom # {}
    /\ MaxOf(DOMAIN s.custom) <= MaxCustomId
    /\ RLt(Zero, CustomTotal(s))
    /\ RLe(CustomTotal(s), RMul(wall, CustomMargin))

RECURSIVE CustomFromUnscaled(_, _, _, _, _)
\* the custom widths branch without its scale factor
CustomFromUnscaled(s, wall, ids, i, x) ==
    IF i > Len(ids) THEN <<>>
    ELSE <<Panel(ids[i], x, Pct(s.custom[ids[i]], wall))>>
         \o CustomFromUnscaled(s, wall, ids, i + 1, RAdd(x, Pct(s.custom[ids[i]], wall)))

RECURSIVE CustomFrom(_, _, _, _, _)
CustomFrom(s, wall, ids, i, x) ==
    IF i > Len(ids) THEN <<>>
    ELSE LET total == CustomTotal(s)
             scale == IF RLt(wall, total) THEN RDiv(wall, total) ELSE RInt(1)
             w     == Pct(RMul(s.custom[ids[i]], scale), wall)
         IN  <<Panel(ids[i], x, w)>> \o CustomFrom(s, wall, ids, i + 1, RAdd(x, w))

\* the "purely custom panels" branch
CustomPanels(s, wall) == CustomFrom(s, wall, SortedSeq(DOMAIN s.custom), 1, Zero)

CenterPanelWidth == 48
CenterCount(s) == Max2(1, s.center_count)
\* a width check that never fails: the center block is laid out whatever
\* its width
CenterNeverExceeds(s, wall) == FALSE
\* "Center panels exceed wall width!"
CenterExceeds(s, wall) == RLt(wall, RInt(CenterCount(s) * CenterPanelWidth))

\* the "Center Equal Panels" branch (when CenterExceeds is false)
CenterPanels(s, wall) ==
    LET n     == CenterCount(s)
        side  == RDiv(RSub(wall, RInt(n * CenterPanelWidth)), RInt(2))
        left  == IF RLt(Zero, side) THEN <<Panel(1, Zero, Pct(side, wall))>> ELSE <<>>
        mid   == [i \in 1..n |->
                    Panel(Len(left) + i,
                          Pct(RAdd(side, RInt((i - 1) * CenterPanelWidth)), wall),
                          Pct(RInt(CenterPanelWidth), wall))]
        right == IF RLt(Zero, side)
                 THEN <<Panel(Len(left) + n + 1, Pct(RSub(wall, side), wall), Pct(side, wall))>>
                 ELSE <<>>
    IN  left \o mid \o right

\* calculate_equal_panels_fallback
calculate_equal_panels_fallback ==
    [i \in 1..2 |-> Panel(i, RInt((i - 1) * 50), RInt(50))]

DefaultPanelWidth == 48

\* a section of full whole panels and remainder rem: its number of panels
\* and the width of each
SectionCount(full, rem) == IF full = 0 THEN 1 ELSE IF RLt(Zero, rem) THEN full + 1 ELSE full
SectionPanelWidth(width, pw, full, rem) ==
    IF full = 0 THEN width
    ELSE IF RLt(Zero, rem) THEN RDiv(width, RInt(full + 1)) ELSE pw
SectionPanels(cnt, adj, wall, x0, id0) ==
    [i \in 1..cnt |->
        Panel(id0 + i - 1, Pct(RAdd(x0, RMul(RInt(i - 1), adj)), wall), Pct(adj, wall))]

\* one section (left or right of the seam) of calculate_start_seam_panels:
\* panels for a section of the given width starting at inch x0 with first id id0
SeamSection(width, pw, wall, x0, id0) ==
    SectionPanels(SectionCount(RFloorDiv(width, pw), RMod(width, pw)),
                  SectionPanelWidth(width, pw, RFloorDiv(width, pw), RMod(width, pw)),
                  wall, x0, id0)

\* the right section behind the panels of the left one
SeamJoin(left, seam, pw, wall) ==
    left \o SeamSection(RSub(wall, seam), pw, wall, seam, Len(left) + 1)

\* panel_width, or 48 when it is not positive
SeamPanelWidth(pw0) == IF RLe(pw0, Zero) THEN RInt(DefaultPanelWidth) ELSE pw0

\* the seam check that accepts a seam on the right wall edge
SeamEdgeAccepted(seam, pw, wall) ==
    IF RLe(seam, Zero) \/ RLt(wall, seam)
    THEN calculate_equal_panels_fallback
    ELSE SeamJoin(SeamSection(seam, pw, wall, Zero, 1), seam, pw, wall)

\* calculate_start_seam_panels that accepts a seam on the right wall edge
SeamPanelsEdgeAccepted(s, wall) ==
    SeamEdgeAccepted(DimInches(s.start_seam), SeamPanelWidth(DimInches(s.panel_width)), wall)

\* calculate_start_seam_panels for the seam position and panel width in inches
SeamPanels(seam, pw, wall) ==
    IF RLe(seam, Zero) \/ RLe(wall, seam)
    THEN calculate_equal_panels_fallback
    ELSE SeamJoin(SeamSection(seam, pw, wall, Zero, 1), seam, pw, wall)

\* calculate_start_seam_panels
calculate_start_seam_panels(s, wall) ==
    SeamPanels(DimInches(s.start_seam), SeamPanelWidth(DimInches(s.panel_width)), wall)

\* the "Equal Panels" branch
EqualPanels(s, wall) ==
    LET n    == Max2(1, s.panel_count)
        base == RDiv(wall, RInt(n))
    IN  [i \in 1..n |-> Panel(i, Pct(RMul(RInt(i - 1), base), wall), Pct(base, wall))]

RECURSIVE FixedFromUncut(_, _, _, _)
\* the fixed width loop with a last panel that is not cut to the wall
FixedFromUncut(pw, wall, cur, id) ==
    IF ~RLt(cur, wall) THEN <<>>
    ELSE <<Panel(id, Pct(cur, wall), Pct(pw, wall))>>
         \o FixedFromUncut(pw, wall, RAdd(cur, pw), id + 1)

RECURSIVE FixedFrom(_, _, _, _)
FixedFrom(pw, wall, cur, id) ==
    IF ~RLt(cur, wall) THEN <<>>
    ELSE <<Panel(id, Pct(cur, wall), Pct(RMin(pw, RSub(wall, cur)), wall))>>
         \o FixedFrom(pw, wall, RAdd(cur, pw), id + 1)

\* the "Fixed Width Panels" branch (panel width > 0)
FixedPanels(s, wall) == FixedFrom(DimInches(s.panel_width), wall, Zero, 1)

----------------------------------------------------------------------------
(* Split post-pass and the two layout pipelines                            *)

RECURSIVE InsertByX(_, _)
\* insert p behind every element whose x is <= p.x (sorted() is stable)
InsertByX(sorted, p) ==
    IF sorted = <<>> THEN <<p>>
    ELSE IF RLe(Head(sorted).x, p.x) THEN <<Head(sorted)>> \o InsertByX(Tail(sorted), p)
    ELSE <<p>> \o sorted

RECURSIVE SortByX(_, _)
\* sorted(panels, key=lambda p: p.x), from index i
SortByX(panels, i) ==
    IF i = 0 THEN <<>> ELSE InsertByX(SortByX(panels, i - 1), panels[i])

\* the split records whose left_id is the panel's id
SplitsOf(s, id) == {o \in DOMAIN s.splits : s.splits[o].left_id = id}

RECURSIVE SplitWalkNoSkip(_, _, _, _, _)
\* the loop of the split post-pass without its check of processed_ids
SplitWalkNoSkip(s, wall, sorted, i, processed) ==
    IF i > Len(sorted) THEN <<>>
    ELSE LET panel == sorted[i] IN
         IF SplitsOf(s, panel.id) = {}
         THEN <<panel>> \o SplitWalkNoSkip(s, wall, sorted, i + 1, processed)
         ELSE LET info == s.splits[CHOOSE o \in SplitsOf(s, panel.id) : TRUE]
                  half == Pct(info.half_width, wall)
              IN  <<Panel(panel.id, panel.x, half),
                    Panel(info.right_id, RAdd(panel.x, half), half)>>
                  \o SplitWalkNoSkip(s, wall, sorted, i + 1, processed)

RECURSIVE SplitWalk(_, _, _, _, _)
\* the loop "for panel in sorted_panels" of the split post-pass
SplitWalk(s, wall, sorted, i, processed) ==
    IF i > Len(sorted) THEN <<>>
    ELSE LET panel == sorted[i] IN
         IF panel.id \in processed THEN SplitWalk(s, wall, sorted, i + 1, processed)
         ELSE IF SplitsOf(s, panel.id) = {}
         THEN <<panel>> \o SplitWalk(s, wall, sorted, i + 1, processed \cup {panel.id})
         ELSE LET info == s.splits[CHOOSE o \in SplitsOf(s, panel.id) : TRUE]
                  half == Pct(info.half_width, wall)
              IN  <<Panel(panel.id, panel.x, half),
                    Panel(info.right_id, RAdd(panel.x, half), half)>>
                  \o SplitWalk(s, wall, sorted, i + 1,
                               processed \cup {panel.id, info.right_id})

\* "Process split panels"
ProcessSplits(s, wall, panels) ==
    IF DOMAIN s.splits = {} THEN panels
    ELSE SplitWalk(s, wall, SortByX(panels, Len(panels)), 1, {})

\* the generator calculate_panels runs, in the order of its branches: custom,
\* center, start seam, equal, fixed (a branch that returns [] early is <<>>)
GeneratePanels(s, wall) ==
    IF UseCustomPanels(s, wall) THEN CustomPanels(s, wall)
    ELSE IF s.center
         THEN (IF CenterExceeds(s, wall) THEN <<>> ELSE CenterPanels(s, wall))
    ELSE IF s.use_start_seam THEN calculate_start_seam_panels(s, wall)
    ELSE IF s.equal THEN EqualPanels(s, wall)
    ELSE IF RLe(DimInches(s.panel_width), Zero) THEN <<>>
    ELSE FixedPanels(s, wall)

\* calculate_panels() -> List[Panel]
calculate_panels(s) ==
    LET wall == DimInches(s.wall_width) IN
    IF RLe(wall, Zero) \/ RLe(DimInches(s.wall_height), Zero) THEN <<>>
    ELSE ProcessSplits(s, wall, GeneratePanels(s, wall))

\* the branch calculate() takes: "invalid" (a return before anything is
\* drawn), "center_error" (the error dialog, then a return), "custom", "seam",
\* "center", "equal" or "fixed"
CalculateBranch(s) ==
    LET wall == DimInches(s.wall_width) IN
    IF ~ ((s.wall_width[1] > 0 \/ s.wall_width[2] > 0)
          /\ (s.wall_height[1] > 0 \/ s.wall_height[2] > 0)) THEN "invalid"
    ELSE IF RLe(wall, Zero) \/ RLe(DimInches(s.wall_height), Zero) THEN "invalid"
    ELSE IF UseCustomPanels(s, wall) THEN "custom"
    ELSE IF s.use_start_seam THEN "seam"
    ELSE IF s.center THEN (IF CenterExceeds(s, wall) THEN "center_error" ELSE "center")
    ELSE IF s.equal THEN "equal"
    ELSE IF RLe(DimInches(s.panel_width), Zero) THEN "invalid"
    ELSE "fixed"

\* the panel list calculate() draws and stores on the wall; when calculate()
\* returns early nothing is drawn and the stored list stays as it was
CalculateGenerator(s, wall, b) ==
    CASE b = "custom" -> CustomPanels(s, wall)
      [] b = "seam"   -> calculate_start_seam_panels(s, wall)
      [] b = "center" -> CenterPanels(s, wall)
      [] b = "equal"  -> EqualPanels(s, wall)
      [] b = "fixed"  -> FixedPanels(s, wall)
      [] OTHER        -> <<>>
CalculateFrom(s, wall, b) ==
    IF b \in {"invalid", "center_error"} THEN s.panels
    ELSE ProcessSplits(s, wall, CalculateGenerator(s, wall, b))
calculate(s) == CalculateFrom(s, DimInches(s.wall_width), CalculateBranch(s))

----------------------------------------------------------------------------
(* State of the layout engine and its handlers.  Every handler below ends  *)
(* with the self.calculate() of its code; the handlers of this section run *)
(* from the event loop with the coordinator idle, so that call runs the    *)
(* computation at once.                                                    *)

MaxEdits == 4
MaxSelected == 2
MaxObjects == 1

WallWidths == {<<8, 0, 0>>, <<12, 0, 0>>, <<3, 4, 0>>}
WallHeights == {<<10, 0, 0>>, <<0, 0, 0>>}
PanelWidths == {<<4, 0, 0>>, <<1, 4, 0>>}
StartSeams == {<<0, 0, 0>>, <<3, 4, 0>>}
PanelCounts == {2, 10}
CenterCounts == {4, 1}
AdjustIds == {1, 2}
AdjustWidths == {<<2, 0, 0>>, <<4, 0, 0>>, <<4, 2, 0>>}
\* horizontal positions of a canvas click, in percent of the wall width
ClickPositions == {10, 40, 60, 90}

Cur == [wall_width |-> wall_width, wall_height |-> wall_height,
        panel_width |-> panel_width, start_seam |-> start_seam,
        use_start_seam |-> use_start_seam_var, center |-> center_panels_var,
        equal |-> equal_panels_var, use_equal |-> use_equal_panels,
        dims |-> wall_dimensions,
        panel_count |-> panel_count_var, center_count |-> center_panel_count_var,
        custom |-> custom_panel_widths, splits |-> split_panels,
        selected |-> selected_panels, panels |-> wall_panels,
        objects |-> wall_objects, next_object_id |-> next_object_id]

\* calculate()'s check before it updates self.wall_dimensions
EntriesValid(s) ==
    /\ s.wall_width[1] > 0 \/ s.wall_width[2] > 0
    /\ s.wall_height[1] > 0 \/ s.wall_height[2] > 0
\* self.wall_dimensions as both computations write it
EntryDimensions(s) == [width |-> s.wall_width, height |-> s.wall_height]

\* the state after self.calculate() has run on s
AfterCalculate(s) ==
    [s EXCEPT !.panels = calculate(s),
              !.use_equal = IF EntriesValid(s) THEN s.equal ELSE s.use_equal,
              !.dims = IF EntriesValid(s) THEN EntryDimensions(s) ELSE s.dims]

\* the state after self.calculate_panels() has run on s
AfterCalculatePanels(s) == [s EXCEPT !.use_equal = s.equal, !.dims = EntryDimensions(s)]

\* the handler's result s0 is computed once and written to the state
Commit(s0, op) ==
    \E s \in {s0} :
        /\ wall_width' = s.wall_width
        /\ wall_height' = s.wall_height
        /\ panel_width' = s.panel_width
        /\ start_seam' = s.start_seam
        /\ use_start_seam_var' = s.use_start_seam
        /\ center_panels_var' = s.center
        /\ equal_panels_var' = s.equal
        /\ use_equal_panels' = s.use_equal
        /\ wall_dimensions' = s.dims
        /\ panel_count_var' = s.panel_count
        /\ center_panel_count_var' = s.center_count
        /\ custom_panel_widths' = s.custom
        /\ split_panels' = s.splits
        /\ selected_panels' = s.selected
        /\ wall_panels' = s.panels
        /\ wall_objects' = s.objects
        /\ next_object_id' = s.next_object_id
        /\ last_op' = op
        /\ edits' = edits + 1
        /\ UNCHANGED <<coord_vars, conv>>

NoOp == [op |-> "none"]
Op(name) == [op |-> name]

\* __init__ and add_new_wall: the defaults of a new wall, then calculate()
LayoutStart ==
    AfterCalculate(
       [wall_width |-> <<8, 0, 0>>, wall_height |-> <<10, 0, 0>>,
        panel_width |-> <<4, 0, 0>>, start_seam |-> <<0, 0, 0>>,
        use_start_seam |-> FALSE, center |-> FALSE, equal |-> FALSE,
        use_equal |-> FALSE,
        dims |-> [width |-> <<8, 0, 0>>, height |-> <<10, 0, 0>>],
        panel_count |-> 2, center_count |-> 4,
        custom |-> <<>>, splits |-> <<>>, selected |-> <<>>, panels |-> <<>>,
        objects |-> <<>>, next_object_id |-> 1])

LayoutInit ==
    \E s \in {LayoutStart} :
        /\ wall_width = s.wall_width
        /\ wall_height = s.wall_height
        /\ panel_width = s.panel_width
        /\ start_seam = s.start_seam
        /\ use_start_seam_var = s.use_start_seam
        /\ center_panels_var = s.center
        /\ equal_panels_var = s.equal
        /\ use_equal_panels = s.use_equal
        /\ wall_dimensions = s.dims
        /\ panel_count_var = s.panel_count
        /\ center_panel_count_var = s.center_count
        /\ custom_panel_widths = s.custom
        /\ split_panels = s.splits
        /\ selected_panels = s.selected
        /\ wall_panels = s.panels
        /\ wall_objects = s.objects
        /\ next_object_id = s.next_object_id
        /\ last_op = NoOp
        /\ edits = 0

\* The entries have no active trace (setup_variable_traces and
\* setup_auto_save_bindings are never called): the user edits an entry and
\* presses Calculate (on_calculate_button_click -> calculate).
EditWallWidth(w) ==
    /\ edits < MaxEdits
    /\ w # wall_width
    /\ Commit(AfterCalculate([Cur EXCEPT !.wall_width = w]), Op("wall_width"))

EditWallHeight(h) ==
    /\ edits < MaxEdits
    /\ h # wall_height
    /\ Commit(AfterCalculate([Cur EXCEPT !.wall_height = h]), Op("wall_height"))

EditPanelWidth(w) ==
    /\ edits < MaxEdits
    /\ w # panel_width
    /\ Commit(AfterCalculate([Cur EXCEPT !.panel_width = w]), Op("panel_width"))

EditStartSeam(v) ==
    /\ edits < MaxEdits
    /\ v # start_seam
    /\ Commit(AfterCalculate([Cur EXCEPT !.start_seam = v]), Op("start_seam"))

EditPanelCount(n) ==
    /\ edits < MaxEdits
    /\ n # panel_count_var
    /\ Commit(AfterCalculate([Cur EXCEPT !.panel_count = n]), Op("panel_count"))

EditCenterCount(n) ==
    /\ edits < MaxEdits
    /\ n # center_panel_count_var
    /\ Commit(AfterCalculate([Cur EXCEPT !.center_count = n]), Op("center_count"))

\* the start seam checkbox is toggled, then on_start_seam_change
on_start_seam_change ==
    /\ edits < MaxEdits
    /\ LET on == ~ use_start_seam_var
           s1 == IF on THEN [Cur EXCEPT !.use_start_seam = TRUE,
                                        !.equal = FALSE, !.center = FALSE]
                       ELSE [Cur EXCEPT !.use_start_seam = FALSE]
       IN  Commit(AfterCalculate(s1), Op("start_seam_toggle"))

\* the equal panels checkbox is toggled, then on_equal_panels_change
on_equal_panels_change ==
    /\ edits < MaxEdits
    /\ LET on == ~ equal_panels_var
           s1 == AfterCalculate([Cur EXCEPT !.equal = on])  \* save_current_wall_data
           s2 == IF on THEN [s1 EXCEPT !.center = FALSE] ELSE s1
       IN  Commit(AfterCalculate(s2), Op("equal_toggle"))

\* on_center_panels_change that clears the width overrides when the box
\* is checked
CenterChangeClearsOverrides ==
    /\ edits < MaxEdits
    /\ LET on == ~ center_panels_var
           s1 == IF on THEN [Cur EXCEPT !.center = TRUE, !.equal = FALSE,
                                        !.custom = <<>>]
                       ELSE [Cur EXCEPT !.center = FALSE]
       IN  Commit(AfterCalculate(s1), Op("center_toggle"))

\* the center panels checkbox is toggled, then on_center_panels_change
on_center_panels_change ==
    /\ edits < MaxEdits
    /\ LET on == ~ center_panels_var
           s1 == IF on THEN [Cur EXCEPT !.center = TRUE, !.equal = FALSE]
                       ELSE [Cur EXCEPT !.center = FALSE]
       IN  Commit(AfterCalculate(s1), Op("center_toggle"))

\* dict helpers
Without(f, k) == [j \in DOMAIN f \ {k} |-> f[j]]
With(f, k, v) == [j \in DOMAIN f \cup {k} |-> IF j = k THEN v ELSE f[j]]

\* list.remove(v) and list.append(v)
RemoveFirst(q, v) == SelectSeq(q, LAMBDA e : e # v)
InList(q, v) == \E i \in 1..Len(q) : q[i] = v

\* the id of the first panel of the list whose horizontal extent contains
\* the click (0 when there is none)
FirstHit(panels, c) ==
    LET hits == {i \in 1..Len(panels) :
                    /\ RLe(panels[i].x, RInt(c))
                    /\ RLe(RInt(c), RAdd(panels[i].x, panels[i].width))}
    IN  IF hits = {} THEN 0 ELSE panels[CHOOSE i \in hits : \A j \in hits : i <= j].id

\* find_panel_at_position: calculate_panels(), then the panel under the click
find_panel_at_position(s, c) == FirstHit(calculate_panels(s), c)

\* on_canvas_click in selection mode, at horizontal position c
on_canvas_click(c) ==
    /\ edits < MaxEdits
    /\ \E id \in {find_panel_at_position(Cur, c)} :
          /\ id # 0
          /\ Len(selected_panels) < MaxSelected \/ InList(selected_panels, id)
          /\ LET sel == IF InList(selected_panels, id)
                        THEN RemoveFirst(selected_panels, id)
                        ELSE Append(selected_panels, id)
             IN  Commit(AfterCalculate([AfterCalculatePanels(Cur) EXCEPT !.selected = sel]),
                        [op |-> "click", id |-> id])

\* apply_panel_width_adjustment with panel id and width <<ft, in, 16ths>>
apply_panel_width_adjustment(id, w) ==
    /\ edits < MaxEdits
    /\ LET total == DimInches(w)
           ok    == RLt(Zero, total) /\ id > 0 /\ id <= MaxCustomId
           s1    == [Cur EXCEPT !.custom = With(Cur.custom, id, total),
                                !.center = FALSE,
                                !.equal = IF Cur.use_equal THEN FALSE ELSE Cur.equal]
       IN  IF ok
           THEN Commit(AfterCalculate(s1), [op |-> "adjust", ok |-> TRUE, id |-> id])
           ELSE Commit(Cur, [op |-> "adjust", ok |-> FALSE, id |-> id])

\* reset_panel_adjustments: both maps are cleared, then calculate()
ResetState(s) == AfterCalculate([s EXCEPT !.custom = <<>>, !.splits = <<>>])

reset_panel_adjustments ==
    /\ edits < MaxEdits
    /\ Commit(ResetState(Cur), Op("reset"))

\* the panel of a list with the given id (the first one)
PanelWithId(panels, id) ==
    panels[CHOOSE i \in 1..Len(panels) :
              panels[i].id = id /\ \A j \in 1..(i - 1) : panels[j].id # id]
PanelIds(panels) == {panels[i].id : i \in 1..Len(panels)}

\* split_selected_panel: the state it leaves when the split succeeds, panels
\* being the list calculate_panels() returned
SplitState(s0, panels) ==
    LET panel_id == s0.selected[1]
        wall     == DimInches(s0.wall_width)
        half     == RDiv(RMul(RDiv(PanelWithId(panels, panel_id).width, Hundred), wall),
                         RInt(2))
        right_id == MaxOf(PanelIds(panels)) + 1
        kept     == {o \in DOMAIN s0.splits :
                        /\ s0.splits[o].left_id # panel_id
                        /\ s0.splits[o].right_id # panel_id}
    IN  \* del custom[panel_id], the split record, then both halves as overrides
        [AfterCalculate(
            [s0 EXCEPT
               !.custom = With(With(Without(s0.custom, panel_id), panel_id, half),
                               right_id, half),
               !.splits = With([o \in kept |-> s0.splits[o]], panel_id,
                               [half_width |-> half, left_id |-> panel_id,
                                right_id |-> right_id]),
               !.center = FALSE])
         EXCEPT !.selected = <<panel_id, right_id>>]

\* split_selected_panel with an error path that drops the selection
SplitClearsSelectionOnError ==
    /\ edits < MaxEdits
    /\ IF Len(selected_panels) # 1
       THEN Commit([Cur EXCEPT !.selected = <<>>], [op |-> "split", ok |-> FALSE])
       ELSE \E before \in {calculate_panels(Cur)} :
               IF selected_panels[1] \notin PanelIds(before)
               THEN Commit([AfterCalculatePanels(Cur) EXCEPT !.selected = <<>>],
                           [op |-> "split", ok |-> FALSE])
               ELSE Commit(SplitState(AfterCalculatePanels(Cur), before),
                           [op |-> "split", ok |-> TRUE, id |-> selected_panels[1],
                            before |-> before])

\* split_selected_panel
split_selected_panel ==
    /\ edits < MaxEdits
    /\ IF Len(selected_panels) # 1
       THEN Commit(Cur, [op |-> "split", ok |-> FALSE])
       ELSE \E before \in {calculate_panels(Cur)} :
               IF selected_panels[1] \notin PanelIds(before)
               THEN Commit(AfterCalculatePanels(Cur), [op |-> "split", ok |-> FALSE])
               ELSE Commit(SplitState(AfterCalculatePanels(Cur), before),
                           [op |-> "split", ok |-> TRUE, id |-> selected_panels[1],
                            before |-> before])

\* clear_panel_selection
clear_panel_selection ==
    /\ edits < MaxEdits
    /\ selected_panels # <<>>
    /\ Commit(AfterCalculate([Cur EXCEPT !.selected = <<>>]), Op("clear_selection"))

\* Entries of the object form.  The vertical entries, the name, the colours
\* and the border stay at the values the form is built with; the baseboard
\* is off (self.use_baseboard = False), as no handler of this section
\* switches it on.
ObjectWidths == {<<1, 8, 0>>, <<4, 0, 0>>}
ObjectHeight == <<2, 0, 0>>
Alignments == {"Center", "Left Edge", "Right Edge"}
HPositions == {<<1, 0, 0>>}
\* the form in alignment mode and in exact-position mode
ObjectForms ==
    {[width |-> w, exact |-> FALSE, alignment |-> a, h |-> <<0, 0, 0>>,
      h_reference |-> "Left Edge"] : w \in ObjectWidths, a \in Alignments}
    \cup
    {[width |-> w, exact |-> TRUE, alignment |-> "Center", h |-> h,
      h_reference |-> r] : w \in ObjectWidths, h \in HPositions, r \in Alignments}

RMax(a, b) == IF RLe(a, b) THEN b ELSE a
\* max(0, min(100, v))
Clamp(v) == RMax(Zero, RMin(Hundred, v))

\* [p for p in panels if p.id in self.selected_panels]
SelectedOf(panels, sel) == SelectSeq(panels, LAMBDA p : InList(sel, p.id))
\* min(p.x for p in selected_panels)
MinX(ps) ==
    CHOOSE m \in {ps[i].x : i \in 1..Len(ps)} :
        \A i \in 1..Len(ps) : RLe(m, ps[i].x)
\* max(p.x + p.width for p in selected_panels)
MaxRight(ps) ==
    CHOOSE m \in {RAdd(ps[i].x, ps[i].width) : i \in 1..Len(ps)} :
        \A i \in 1..Len(ps) : RLe(RAdd(ps[i].x, ps[i].width), m)

\* an alignment that puts the object's centre on the edge it is aligned to
AlignedXOnEdge(ps, alignment, w, wall) ==
    CASE alignment = "Center" -> RDiv(RAdd(MinX(ps), MaxRight(ps)), RInt(2))
      [] alignment = "Left Edge" -> MinX(ps)
      [] alignment = "Right Edge" -> MaxRight(ps)

\* x_position of add_wall_object in alignment mode; ps are the selected
\* panels of the layout, w the object width and wall the wall width in inches
AlignedX(ps, alignment, w, wall) ==
    LET object_half_width_pct == RDiv(Pct(w, wall), RInt(2))
    IN  CASE alignment = "Center" -> RDiv(RAdd(MinX(ps), MaxRight(ps)), RInt(2))
          [] alignment = "Left Edge" -> RAdd(MinX(ps), object_half_width_pct)
          [] alignment = "Right Edge" -> RSub(MaxRight(ps), object_half_width_pct)

\* x_position of add_wall_object in exact-position mode
ExactX(h, h_reference, w, wall) ==
    LET half == RDiv(w, RInt(2))
        h_position_inches ==
            CASE h_reference = "Center" -> h
              [] h_reference = "Right Edge" -> RSub(h, half)
              [] OTHER -> RAdd(h, half)
    IN  Clamp(Pct(h_position_inches, wall))

\* y_position of add_wall_object: distance 0 from "Wall Top" to the
\* object's "Top Edge"
VerticalY(height, usable) == Clamp(Pct(RDiv(height, RInt(2)), usable))

\* the WallObject that add_wall_object creates, without the fields that
\* only serve its display (name, colours, border, h_position_*)
WallObject(s, f, x_position) ==
    [id |-> s.next_object_id, width |-> f.width, height |-> ObjectHeight,
     x_position |-> x_position,
     y_position |-> VerticalY(DimInches(ObjectHeight), DimInches(s.dims.height)),
     affected_panels |-> s.selected,
     alignment |-> IF f.exact THEN "Custom" ELSE f.alignment,
     use_exact_position |-> f.exact,
     v_reference |-> "Top Edge",
     h_reference |-> IF f.exact THEN f.h_reference ELSE "Left Edge"]

\* the end of add_wall_object: append, calculate(), clear_panel_selection()
ObjectAdded(s, obj, op) ==
    \E s1 \in {AfterCalculate([s EXCEPT !.objects = Append(s.objects, obj),
                                        !.next_object_id = s.next_object_id + 1])} :
        Commit(AfterCalculate([s1 EXCEPT !.selected = <<>>]), op)

AddOp(f, ok, raised, before) ==
    [op |-> "add_object", ok |-> ok, raised |-> raised, exact |-> f.exact,
     selected |-> selected_panels, before |-> before]

\* add_wall_object with the form f.  It reads the wall from
\* self.wall_dimensions, before its calculate_panels() refreshes that copy.
\* A ZeroDivisionError (usable wall height or wall width 0) or a ValueError
\* (min() of no panel) ends the handler where it is raised.
add_wall_object(f) ==
    /\ edits < MaxEdits
    /\ Len(wall_objects) < MaxObjects
    /\ LET w    == DimInches(f.width)
           wall == DimInches(wall_dimensions.width)
       IN  IF selected_panels = <<>>
           THEN Commit(Cur, AddOp(f, FALSE, FALSE, <<>>))
           ELSE IF DimInches(wall_dimensions.height) = Zero
           THEN Commit(Cur, AddOp(f, FALSE, TRUE, <<>>))
           ELSE IF f.exact
           THEN IF wall = Zero
                THEN Commit(Cur, AddOp(f, FALSE, TRUE, <<>>))
                ELSE ObjectAdded(Cur,
                         WallObject(Cur, f, ExactX(DimInches(f.h), f.h_reference, w, wall)),
                         AddOp(f, TRUE, FALSE, <<>>))
           ELSE \E before \in {calculate_panels(Cur)} :
                   \E ps \in {SelectedOf(before, selected_panels)} :
                      IF ps = <<>>
                      THEN Commit(AfterCalculatePanels(Cur), AddOp(f, FALSE, TRUE, before))
                      ELSE \E x \in {AlignedX(ps, f.alignment, w, wall)} :
                              ObjectAdded(AfterCalculatePanels(Cur),
                                  WallObject(Cur, f, x),
                                  AddOp(f, TRUE, FALSE, before))

\* remove_all_objects, the question answered with yes
remove_all_objects ==
    /\ edits < MaxEdits
    /\ wall_objects # <<>>
    /\ Commit(AfterCalculate([Cur EXCEPT !.objects = <<>>]), Op("remove_objects"))

LayoutNext ==
    \/ \E w \in WallWidths : EditWallWidth(w)
    \/ \E h \in WallHeights : EditWallHeight(h)
    \/ \E w \in PanelWidths : EditPanelWidth(w)
    \/ \E v \in StartSeams : EditStartSeam(v)
    \/ \E n \in PanelCounts : EditPanelCount(n)
    \/ \E n \in CenterCounts : EditCenterCount(n)
    \/ on_start_seam_change
    \/ on_equal_panels_change
    \/ on_center_panels_change
    \/ \E c \in ClickPositions : on_canvas_click(c)
    \/ \E id \in AdjustIds, w \in AdjustWidths : apply_panel_width_adjustment(id, w)
    \/ reset_panel_adjustments
    \/ split_selected_panel
    \/ clear_panel_selection
    \/ \E f \in ObjectForms : add_wall_object(f)
    \/ remove_all_objects

----------------------------------------------------------------------------
(* Properties of the layout engine                                         *)

Tolerance == Rat(1, 1000000)
Near(a, b) == RLe(RAbs(RSub(a, b)), Tolerance)

RECURSIVE SumPanelWidths(_, _)
SumPanelWidths(panels, i) ==
    IF i = 0 THEN Zero ELSE RAdd(panels[i].width, SumPanelWidths(panels, i - 1))

Coverage(panels) == Near(SumPanelWidths(panels, Len(panels)), Hundred)

NoGap(panels) ==
    LET sorted == SortByX(panels, Len(panels)) IN
    \/ sorted = <<>>
    \/ /\ Near(sorted[1].x, Zero)
       /\ \A i \in 1..(Len(sorted) - 1) :
             Near(sorted[i + 1].x, RAdd(sorted[i].x, sorted[i].width))

\* C1: whenever calculate_panels returns a non-empty list for a wall of
\* positive width, the panel widths sum to 100 percent within the tolerance.
C1_Coverage ==
    LET panels == calculate_panels(Cur) IN
    (RLt(Zero, DimInches(wall_width)) /\ panels # <<>>) => Coverage(panels)

\* C2: every list calculate_panels returns starts at x = 0 and, sorted by x,
\* each panel starts where the one before it ends.
C2_NoGap == NoGap(calculate_panels(Cur))

\* C3: right after a successful split the recomputed list still covers the
\* wall without gaps and has exactly one panel more than before the split.
C3_SplitAddsOne ==
    (last_op.op = "split" /\ last_op.ok) =>
        LET panels == calculate_panels(Cur) IN
        /\ Coverage(panels)
        /\ NoGap(panels)
        /\ Len(panels) = Len(last_op.before) + 1

\* the generator the stated priority selects: custom, start seam, centered,
\* equal, fixed
PriorityGenerator(s, wall) ==
    IF UseCustomPanels(s, wall) THEN CustomPanels(s, wall)
    ELSE IF s.use_start_seam THEN calculate_start_seam_panels(s, wall)
    ELSE IF s.center
         THEN (IF CenterExceeds(s, wall) THEN <<>> ELSE CenterPanels(s, wall))
    ELSE IF s.equal THEN EqualPanels(s, wall)
    ELSE IF RLe(DimInches(s.panel_width), Zero) THEN <<>>
    ELSE FixedPanels(s, wall)

\* C5: every layout computation (calculate_panels as well as calculate) uses
\* the strategy of the fixed priority custom > start seam > centered > equal
\* > fixed; with the start seam and the center flag both set it is start seam.
C5_Priority ==
    LET wall == DimInches(wall_width) IN
    (RLt(Zero, wall) /\ RLt(Zero, DimInches(wall_height))) =>
        calculate_panels(Cur) = ProcessSplits(Cur, wall, PriorityGenerator(Cur, wall))

\* ids that are the original / left id of a split record
SplitLeftIds == {split_panels[o].left_id : o \in DOMAIN split_panels}

\* C10: no panel id is both a key of the override map and the left id of a
\* split record; a split of p leaves no override for p and a width override
\* of p leaves no split record for p.
C10_SplitOverrideExclusive ==
    /\ [](DOMAIN custom_panel_widths \cap (SplitLeftIds \cup DOMAIN split_panels) = {})
    /\ [][(last_op'.op = "split" /\ last_op'.ok)
             => last_op'.id \notin DOMAIN custom_panel_widths']_vars
    /\ [][(last_op'.op = "adjust" /\ last_op'.ok)
             => last_op'.id \notin (SplitLeftIds' \cup DOMAIN split_panels')]_vars

\* a step of split_selected_panel
SplitStep == last_op'.op = "split" /\ edits' = edits + 1
\* the checkboxes that choose the generator
ModeFlags == <<use_start_seam_var, center_panels_var, equal_panels_var>>
\* the selection is not exactly one panel of the current layout
BadSplitSelection ==
    IF Len(selected_panels) # 1 THEN TRUE
    ELSE selected_panels[1] \notin PanelIds(calculate_panels(Cur))

\* C11: a split requested with zero or several selected panels, or with a
\* selected id that is not in the layout, fails, and a failed split leaves the
\* override map, the split records, the mode flags and the selection as they
\* were.
C11_SplitErrorWritesNothing ==
    [][SplitStep =>
          /\ BadSplitSelection => ~ last_op'.ok
          /\ (~ last_op'.ok) =>
                /\ custom_panel_widths' = custom_panel_widths
                /\ split_panels' = split_panels
                /\ ModeFlags' = ModeFlags
                /\ selected_panels' = selected_panels]_vars

\* a split has failed because the one selected id is no panel of the layout
C11_Witness ==
    /\ last_op.op = "split" /\ ~ last_op.ok
    /\ Len(selected_panels) = 1

\* the panels of a list, as a set
PanelSet(panels) == {panels[i] : i \in 1..Len(panels)}

\* C12: after a successful split of panel p the layout holds the two halves
\* of p on p's footprint (ids p and the new id), and every other panel of
\* the layout before the split with its id, x and width unchanged.
C12_SplitReplacesOnlyThatPanel ==
    (last_op.op = "split" /\ last_op.ok) =>
        LET p     == PanelWithId(last_op.before, last_op.id)
            half  == RDiv(p.width, RInt(2))
            right == MaxOf(PanelIds(last_op.before)) + 1
        IN  /\ Panel(last_op.id, p.x, half) \in PanelSet(wall_panels)
            /\ Panel(right, RAdd(p.x, half), half) \in PanelSet(wall_panels)
            /\ \A q \in PanelSet(last_op.before) :
                  q.id # last_op.id => q \in PanelSet(wall_panels)

\* calculate_panels and calculate get past their dimension checks
ValidDims(s) ==
    /\ RLt(Zero, DimInches(s.wall_width)) /\ RLt(Zero, DimInches(s.wall_height))
    /\ s.wall_width[1] > 0 \/ s.wall_width[2] > 0
    /\ s.wall_height[1] > 0 \/ s.wall_height[2] > 0
WithinMargin(s) ==
    RLe(CustomTotal(s), RMul(DimInches(s.wall_width), Rat(105, 100)))
NoOverrides(s) == [s EXCEPT !.custom = <<>>]
\* both pipelines ignore the overrides of s
OverridesIgnored(s) ==
    /\ calculate_panels(s) = calculate_panels(NoOverrides(s))
    /\ calculate(s) = calculate(NoOverrides(s))
\* both pipelines take their custom branch exactly when cond holds
CustomUsedIff(s, cond) ==
    /\ UseCustomPanels(s, DimInches(s.wall_width)) <=> cond
    /\ (CalculateBranch(s) = "custom") <=> cond

ClaimedScale(s) ==
    IF RLt(DimInches(s.wall_width), CustomTotal(s))
    THEN RDiv(DimInches(s.wall_width), CustomTotal(s)) ELSE RInt(1)

SeamOutOfRange(s) ==
    \/ RLe(DimInches(s.start_seam), Zero)
    \/ RLe(DimInches(s.wall_width), DimInches(s.start_seam))
\* the seam generator is the branch calculate_panels takes / calculate takes
SeamModePanels(s) ==
    /\ s.use_start_seam /\ ~ s.center
    /\ ~ UseCustomPanels(s, DimInches(s.wall_width))
SeamModeCalculate(s) == CalculateBranch(s) = "seam"
FiftyFifty == <<Panel(1, Zero, RInt(50)), Panel(2, RInt(50), RInt(50))>>

CenterModePanels(s) ==
    s.center /\ ~ UseCustomPanels(s, DimInches(s.wall_width))
CenterModeCalculate(s) ==
    /\ s.center /\ ~ s.use_start_seam
    /\ ~ UseCustomPanels(s, DimInches(s.wall_width))
\* count x 48" exceeds the wall width
CenterBlockTooWide(s) ==
    RLt(DimInches(s.wall_width), RInt(Max2(1, s.center_count) * 48))

\* C16: in centered mode with count x 48" wider than the wall,
\* calculate_panels returns the empty list and calculate takes its error
\* return, drawing nothing (never a clamped or partial layout); neither
\* changes the override map or the split records.
C16_CenterTooWideFails ==
    (ValidDims(Cur) /\ CenterBlockTooWide(Cur)) =>
        /\ CenterModePanels(Cur) =>
              /\ calculate_panels(Cur) = <<>>
              /\ AfterCalculatePanels(Cur).custom = custom_panel_widths
              /\ AfterCalculatePanels(Cur).splits = split_panels
        /\ CenterModeCalculate(Cur) =>
              /\ CalculateBranch(Cur) = "center_error"
              /\ AfterCalculate(Cur).panels = wall_panels
              /\ AfterCalculate(Cur).custom = custom_panel_widths
              /\ AfterCalculate(Cur).splits = split_panels

\* the center checkbox has just been set with 4 x 48" on a narrower wall
C16_Witness ==
    /\ last_op.op = "center_toggle" /\ center_panels_var
    /\ ValidDims(Cur) /\ CenterModeCalculate(Cur) /\ CenterBlockTooWide(Cur)
    /\ center_panel_count_var = 4
    /\ calculate_panels(Cur) = <<>>

AddStep == last_op'.op = "add_object" /\ edits' = edits + 1

\* the wall add_wall_object reads has a positive width and height
WallUsable ==
    /\ RLt(Zero, DimInches(wall_dimensions.width))
    /\ RLt(Zero, DimInches(wall_dimensions.height))

(* C17: add_wall_object with no panel selected: in alignment mode it       *)
(* signals an error and adds no object; in exact-position mode the outcome *)
(* does not depend on the selection, so the object is still created.       *)
C17_ExactModeIgnoresSelection ==
    [][(AddStep /\ selected_panels = <<>>) =>
          IF last_op'.exact
          THEN WallUsable =>
                  /\ last_op'.ok
                  /\ Len(wall_objects') = Len(wall_objects) + 1
          ELSE /\ ~ last_op'.ok
               /\ wall_objects' = wall_objects]_vars

\* the panels of a list whose id is selected
SelectedSet(panels, sel) == {p \in PanelSet(panels) : InList(sel, p.id)}
LeastX(ps) == CHOOSE m \in {p.x : p \in ps} : \A p \in ps : RLe(m, p.x)
GreatestRight(ps) ==
    CHOOSE m \in {RAdd(p.x, p.width) : p \in ps} : \A p \in ps : RLe(RAdd(p.x, p.width), m)
LastObject == wall_objects[Len(wall_objects)]
AlignedAdd == last_op.op = "add_object" /\ last_op.ok /\ ~ last_op.exact

RCeil(a) == - ((- a.n) \div a.d)

\* fixed-width tiling is the generator of both pipelines: no override, no
\* split record, no mode flag, valid dimensions and a positive panel width
FixedMode(s) ==
    /\ ValidDims(s)
    /\ DOMAIN s.custom = {} /\ DOMAIN s.splits = {}
    /\ ~ s.center /\ ~ s.use_start_seam /\ ~ s.equal
    /\ RLt(Zero, DimInches(s.panel_width))

\* the tiling of a wall of W inches by panels of F inches
ClaimedTiling(W, F) ==
    [i \in 1..RCeil(RDiv(W, F)) |->
        Panel(i, Pct(RMul(RInt(i - 1), F), W),
              IF i < RCeil(RDiv(W, F)) THEN Pct(F, W)
              ELSE Pct(RMin(F, RSub(W, RMul(RInt(RCeil(RDiv(W, F)) - 1), F))), W))]

(* C19: with no overrides, splits or mode flags a wall of width W and a    *)
(* fixed panel width F > 0 give panels 1..N in order, N = ceil(W/F), panel *)
(* i starting at (i-1) x F, every panel but the last of width F and the    *)
(* last of width min(F, W - (N-1) x F).                                    *)
C19_FixedWidthTiling ==
    FixedMode(Cur) =>
        /\ calculate_panels(Cur)
              = ClaimedTiling(DimInches(wall_width), DimInches(panel_width))
        /\ calculate(Cur)
              = ClaimedTiling(DimInches(wall_width), DimInches(panel_width))

\* a 40" wall tiled by 16" panels: 16", 16" and a last panel of 8"
C19_Witness ==
    /\ FixedMode(Cur)
    /\ last_op.op = "panel_width"
    /\ wall_width = <<3, 4, 0>> /\ panel_width = <<1, 4, 0>>
    /\ Len(wall_panels) = 3
    /\ wall_panels[3] = Panel(3, RInt(80), RInt(20))

\* the panels of a list that start in [lo, hi) percent
StartingIn(panels, lo, hi) ==
    SelectSeq(panels, LAMBDA p : RLe(lo, p.x) /\ RLt(p.x, hi))
\* the list holds exactly one panel in [lo, hi), and it spans [lo, hi)
OnePanelSpans(panels, lo, hi) ==
    /\ Len(StartingIn(panels, lo, hi)) = 1
    /\ StartingIn(panels, lo, hi)[1].x = lo
    /\ StartingIn(panels, lo, hi)[1].width = RSub(hi, lo)
\* a section of the given width holds less than two fixed panel widths
UnderTwoPanels(width, s) ==
    RLt(width, RMul(RInt(2), SeamPanelWidth(DimInches(s.panel_width))))
\* both sections of a seam layout of s as the claim has them
ClaimedSections(s, panels) ==
    LET wall == DimInches(s.wall_width)
        seam == DimInches(s.start_seam)
    IN  /\ UnderTwoPanels(seam, s) => OnePanelSpans(panels, Zero, Pct(seam, wall))
        /\ UnderTwoPanels(RSub(wall, seam), s)
              => OnePanelSpans(panels, Pct(seam, wall), Hundred)

(* C20: left and right of a valid seam, a section narrower than one fixed  *)
(* panel width is a single panel spanning the section, and so is a section *)
(* of at least one but less than two fixed panel widths.                   *)
C20_SeamSectionSinglePanel ==
    (ValidDims(Cur) /\ ~ SeamOutOfRange(Cur)) =>
        /\ ClaimedSections(Cur, calculate_start_seam_panels(Cur, DimInches(wall_width)))
        /\ (split_panels = <<>> /\ SeamModePanels(Cur))
              => ClaimedSections(Cur, calculate_panels(Cur))
        /\ (split_panels = <<>> /\ SeamModeCalculate(Cur))
              => ClaimedSections(Cur, calculate(Cur))

\* the handlers that change the override map or the split map
MapWriters == {"adjust", "split", "reset"}
MapsKept(s) == s.custom = custom_panel_widths /\ s.splits = split_panels
\* a computation leaves both maps alone and a second one gives the same list
ComputationReadsOnly ==
    /\ MapsKept(AfterCalculatePanels(Cur))
    /\ MapsKept(AfterCalculate(Cur))
    /\ calculate_panels(AfterCalculatePanels(Cur)) = calculate_panels(Cur)
    /\ calculate(AfterCalculate(Cur)) = calculate(Cur)
MapsChangeOnlyByWriters ==
    (custom_panel_widths' # custom_panel_widths \/ split_panels' # split_panels)
        => last_op'.op \in MapWriters

UniqueIds(panels) ==
    \A i, j \in 1..Len(panels) : panels[i].id = panels[j].id => i = j

InPercentRange(v) == RLe(Zero, v) /\ RLe(v, Hundred)

(* C23: every wall object has its xPercent and its yPercent within 0..100, *)
(* created in exact mode or in alignment mode.                             *)
C23_ObjectPercentInRange ==
    \A i \in 1..Len(wall_objects) :
        /\ InPercentRange(wall_objects[i].x_position)
        /\ InPercentRange(wall_objects[i].y_position)

(* C24: a successful split of panel p records a split with left id p, right
   id = the greatest id of the current layout + 1 and half width = (p's
   width percent / 100 x wall width) / 2, after removing every record whose
   left id or right id is p; and after any sequence of splits no panel id
   appears in more than one split record. *)
SplitRecorded ==
    (last_op'.op = "split" /\ last_op'.ok /\ edits' = edits + 1) =>
        LET p      == last_op'.id
            before == last_op'.before
        IN  /\ p \in DOMAIN split_panels'
            /\ split_panels'[p].left_id = p
            /\ split_panels'[p].right_id = MaxOf(PanelIds(before)) + 1
            /\ split_panels'[p].half_width =
                  RDiv(RMul(RDiv(PanelWithId(before, p).width, Hundred),
                            DimInches(wall_width)), RInt(2))
            /\ \A o \in DOMAIN split_panels' \ {p} :
                  /\ o \in DOMAIN split_panels
                  /\ split_panels'[o] = split_panels[o]
                  /\ split_panels[o].left_id # p
                  /\ split_panels[o].right_id # p
            /\ \A o \in DOMAIN split_panels \ {p} :
                  (split_panels[o].left_id # p /\ split_panels[o].right_id # p)
                      => o \in DOMAIN split_panels'

RecordIds(o) == {split_panels[o].left_id, split_panels[o].right_id}

NoIdInTwoRecords ==
    \A o1, o2 \in DOMAIN split_panels :
        o1 # o2 => RecordIds(o1) \cap RecordIds(o2) = {}

C24_SplitAllocation == [][SplitRecorded]_vars /\ [] NoIdInTwoRecords

(* C25: in the output of the split post-pass (the list either pipeline
   returns while a split is recorded) every panel's x equals the running
   total of the widths of the panels before it in the list. *)
RunningTotalX(panels) ==
    \A i \in 1..Len(panels) : Near(panels[i].x, SumPanelWidths(panels, i - 1))

C25_PostPassRunningTotal ==
    split_panels # <<>> =>
        /\ RunningTotalX(calculate_panels(Cur))
        /\ RunningTotalX(calculate(Cur))

(* C27: after any sequence of toggle events at most one of the start-seam,
   center-panels and equal-panels flags is set. *)
FlagsSet ==
    {f \in {"start_seam", "center", "equal"} :
        \/ f = "start_seam" /\ use_start_seam_var
        \/ f = "center" /\ center_panels_var
        \/ f = "equal" /\ equal_panels_var}

C27_TogglesExclusive == Cardinality(FlagsSet) <= 1

(* C28: whenever calculate() computes a panel list (it does not return
   early on invalid dimensions or a center error), that list equals the
   list calculate_panels() returns for the same state: same ids, x and
   widths in the same order. *)
CalculateComputes == CalculateBranch(Cur) \notin {"invalid", "center_error"}

C28_PipelinesAgree == CalculateComputes => calculate(Cur) = calculate_panels(Cur)

(* C30: from a state with no overrides and no splits, in any layout mode,
   splitting the selected panel and then resetting the adjustments leaves
   both maps empty, the mode flags as they were and the drawn layout equal
   to the layout before the split. *)
SplitPossible ==
    /\ custom_panel_widths = <<>> /\ split_panels = <<>>
    /\ Len(selected_panels) = 1
    /\ selected_panels[1] \in PanelIds(calculate_panels(Cur))

SplitThenReset(s) ==
    ResetState(SplitState(AfterCalculatePanels(s), calculate_panels(s)))

SameAsBeforeSplit(s) ==
    /\ s.custom = <<>> /\ s.splits = <<>>
    /\ s.use_start_seam = use_start_seam_var
    /\ s.center = center_panels_var
    /\ s.equal = equal_panels_var
    /\ s.panels = wall_panels

C30_SplitResetRoundTrip == SplitPossible => SameAsBeforeSplit(SplitThenReset(Cur))

----------------------------------------------------------------------------
(* Recomputation coordinator.  The program is single threaded: stack is    *)
(* the chain of handlers that are executing, innermost last.  A frame is   *)
(*   [f |-> "calc", dialog]   calculate() between its try and its finally; *)
(*                            dialog: the modal error box of the center    *)
(*                            branch is open and runs the event loop       *)
(*   [f |-> "load", old]      load_current_wall_data inside its try        *)
(*   [f |-> "tab", pc]        on_wall_tab_change                           *)
(*   [f |-> "baseboard"]      on_baseboard_change after its save           *)
(* User events are handled when the stack is empty; timer and idle         *)
(* callbacks also run in the event loop of the modal error box.            *)
(* coord is history: events (user events so far), loads, step (what the    *)
(* last step did), k (calls deferred during the running computation,       *)
(* counted up to 2), owed (a call was deferred and no computation that     *)
(* started after it has finished yet), fresh (the running computation      *)
(* started after the last deferred call), served (some deferred call has   *)
(* been followed by a whole computation) and since_load (computations      *)
(* started since the last load finished, -1 once another event or timer    *)
(* has called calculate()).                                                *)

MaxEvents == 4
MaxLoads == 2

CalcFrame(d) == [f |-> "calc", dialog |-> d]
Top == stack[Len(stack)]
Popped == SubSeq(stack, 1, Len(stack) - 1)
ActiveCalcs == Cardinality({i \in 1..Len(stack) : stack[i].f = "calc"})
Loading == \E i \in 1..Len(stack) : stack[i].f = "load"
\* the Tk event loop is dispatching: the main loop, or the modal error box
InEventLoop == IF stack = <<>> THEN TRUE ELSE (Top.f = "calc" /\ Top.dialog)

CoordInit ==
    /\ calculation_in_progress = FALSE
    /\ pending_calculation = FALSE
    /\ switching_walls = FALSE
    /\ idle_calls = 0
    /\ baseboard_timer = FALSE
    /\ stack = <<>>
    /\ coord = [events |-> 0, loads |-> 0, step |-> "init", k |-> 0,
                owed |-> FALSE, fresh |-> FALSE, served |-> FALSE,
                since_load |-> -1]

\* history after a call of calculate() that found a computation or a load in
\* progress
Deferred(c) ==
    [c EXCEPT !.step = "call_deferred", !.owed = TRUE, !.fresh = FALSE,
              !.k = IF ActiveCalcs > 0 /\ c.k < 2 THEN c.k + 1 ELSE c.k]
\* history after a call of calculate() that started a computation
Started(c) ==
    [c EXCEPT !.step = "call_started", !.fresh = TRUE, !.k = 0,
              !.since_load = IF c.since_load \in 0..2 THEN c.since_load + 1
                             ELSE c.since_load]

\* calculate() without its guard: the computation starts whatever the flags
CalculateReentrant(stk, sw, c, s) ==
    /\ calculation_in_progress' = TRUE
    /\ pending_calculation' = pending_calculation
    /\ stack' = Append(stk, CalcFrame(CalculateBranch(s) = "center_error"))
    /\ coord' = Started(c)

\* a call of calculate() up to the start of its try block, made with the
\* stack stk below it, switching_walls = sw and the UI values s
CallCalculate(stk, sw, c, s) ==
    IF calculation_in_progress
    THEN /\ pending_calculation' = TRUE
         /\ calculation_in_progress' = calculation_in_progress
         /\ stack' = stk
         /\ coord' = Deferred(c)
    ELSE IF sw
    THEN /\ UNCHANGED <<pending_calculation, calculation_in_progress>>
         /\ stack' = stk
         /\ coord' = [c EXCEPT !.step = "call_skipped"]
    ELSE /\ calculation_in_progress' = TRUE
         /\ pending_calculation' = pending_calculation
         /\ stack' = Append(stk, CalcFrame(CalculateBranch(s) = "center_error"))
         /\ coord' = Started(c)

layout_inputs == <<wall_width, wall_height, panel_width, start_seam,
                   use_start_seam_var, panel_count_var, center_panel_count_var,
                   custom_panel_widths, split_panels, selected_panels,
                   wall_objects, next_object_id, last_op, edits>>
UserEvent(c) == [c EXCEPT !.events = c.events + 1, !.since_load = -1]

\* on_calculate_button_click
on_calculate_button_click ==
    /\ stack = <<>>
    /\ coord.events < MaxEvents
    /\ CallCalculate(stack, switching_walls, UserEvent(coord), Cur)
    /\ UNCHANGED <<layout_vars, switching_walls, idle_calls, baseboard_timer, conv>>

\* the center panels checkbox is toggled, then on_center_panels_change, with
\* the computation it starts left running
CenterToggle ==
    /\ stack = <<>>
    /\ coord.events < MaxEvents
    /\ LET on == ~ center_panels_var
           s1 == IF on THEN [Cur EXCEPT !.center = TRUE, !.equal = FALSE]
                       ELSE [Cur EXCEPT !.center = FALSE]
       IN  /\ center_panels_var' = s1.center
           /\ equal_panels_var' = s1.equal
           /\ CallCalculate(stack, switching_walls, UserEvent(coord), s1)
    /\ UNCHANGED <<layout_inputs, use_equal_panels, wall_dimensions, wall_panels,
                   switching_walls, idle_calls, baseboard_timer, conv>>

\* on_baseboard_change up to its save_current_wall_data() -> calculate()
on_baseboard_change ==
    /\ stack = <<>>
    /\ coord.events < MaxEvents
    /\ CallCalculate(<<[f |-> "baseboard"]>>, switching_walls, UserEvent(coord), Cur)
    /\ UNCHANGED <<layout_vars, switching_walls, idle_calls, baseboard_timer, conv>>

\* the rest of on_baseboard_change: cancel the timer and arm it again
BaseboardArm ==
    /\ stack # <<>> /\ Top.f = "baseboard"
    /\ baseboard_timer' = TRUE
    /\ stack' = Popped
    /\ coord' = [coord EXCEPT !.step = "arm"]
    /\ UNCHANGED <<layout_vars, calculation_in_progress, pending_calculation,
                   switching_walls, idle_calls, conv>>

\* the armed timer fires: calculate()
TimerFires ==
    /\ baseboard_timer
    /\ InEventLoop
    /\ baseboard_timer' = FALSE
    /\ CallCalculate(stack, switching_walls, [coord EXCEPT !.since_load = -1], Cur)
    /\ UNCHANGED <<layout_vars, switching_walls, idle_calls, conv>>

\* a callback queued with after_idle(self.calculate) runs
RunIdle ==
    /\ idle_calls > 0
    /\ InEventLoop
    /\ idle_calls' = idle_calls - 1
    /\ CallCalculate(stack, switching_walls, coord, Cur)
    /\ UNCHANGED <<layout_vars, switching_walls, baseboard_timer, conv>>

\* calculate()'s end with a finally block that leaves the pending flag set
CalcFinishKeepsPending ==
    /\ stack # <<>> /\ Top.f = "calc"
    /\ \E s \in {AfterCalculate(Cur)} :
          /\ wall_panels' = s.panels
          /\ use_equal_panels' = s.use_equal
          /\ wall_dimensions' = s.dims
    /\ calculation_in_progress' = FALSE
    /\ pending_calculation' = pending_calculation
    /\ idle_calls' = IF pending_calculation THEN idle_calls + 1 ELSE idle_calls
    /\ stack' = Popped
    /\ coord' = [coord EXCEPT !.step = "finish", !.fresh = FALSE,
                              !.owed = IF coord.fresh THEN FALSE ELSE coord.owed,
                              !.served = coord.served \/ (coord.fresh /\ coord.owed)]
    /\ UNCHANGED <<layout_inputs, center_panels_var, equal_panels_var,
                   switching_walls, baseboard_timer, conv>>

\* calculate()'s end with a finally block that drops the pending request
CalcFinishDropsPending ==
    /\ stack # <<>> /\ Top.f = "calc"
    /\ \E s \in {AfterCalculate(Cur)} :
          /\ wall_panels' = s.panels
          /\ use_equal_panels' = s.use_equal
          /\ wall_dimensions' = s.dims
    /\ calculation_in_progress' = FALSE
    /\ pending_calculation' = FALSE
    /\ idle_calls' = idle_calls
    /\ stack' = Popped
    /\ coord' = [coord EXCEPT !.step = "finish", !.fresh = FALSE,
                              !.owed = IF coord.fresh THEN FALSE ELSE coord.owed,
                              !.served = coord.served \/ (coord.fresh /\ coord.owed)]
    /\ UNCHANGED <<layout_inputs, center_panels_var, equal_panels_var,
                   switching_walls, baseboard_timer, conv>>

\* calculate() from the end of its try block: the panels are drawn and
\* stored (or the method returns early), then the finally block
CalcFinish ==
    /\ stack # <<>> /\ Top.f = "calc"
    /\ \E s \in {AfterCalculate(Cur)} :
          /\ wall_panels' = s.panels
          /\ use_equal_panels' = s.use_equal
          /\ wall_dimensions' = s.dims
    /\ calculation_in_progress' = FALSE
    /\ pending_calculation' = FALSE
    /\ idle_calls' = IF pending_calculation THEN idle_calls + 1 ELSE idle_calls
    /\ stack' = Popped
    /\ coord' = [coord EXCEPT !.step = "finish", !.fresh = FALSE,
                              !.owed = IF coord.fresh THEN FALSE ELSE coord.owed,
                              !.served = coord.served \/ (coord.fresh /\ coord.owed)]
    /\ UNCHANGED <<layout_inputs, center_panels_var, equal_panels_var,
                   switching_walls, baseboard_timer, conv>>

\* load_current_wall_data up to its try block, with the stack stk below it
LoadBegin(stk, c) ==
    /\ calculation_in_progress' = TRUE
    /\ stack' = Append(stk, [f |-> "load", old |-> calculation_in_progress])
    /\ coord' = [c EXCEPT !.step = "load_begin", !.loads = c.loads + 1]
    /\ UNCHANGED <<pending_calculation, idle_calls>>

\* duplicate_wall: the copy of the current wall is loaded (the UI values are
\* written with the values they have)
duplicate_wall ==
    /\ stack = <<>>
    /\ coord.events < MaxEvents /\ coord.loads < MaxLoads
    /\ LoadBegin(stack, UserEvent(coord))
    /\ UNCHANGED <<layout_vars, switching_walls, baseboard_timer, conv>>

\* a finally block of load_current_wall_data that leaves the flag set
LoadFinishKeepsFlag ==
    /\ stack # <<>> /\ Top.f = "load"
    /\ calculation_in_progress' = TRUE
    /\ idle_calls' = idle_calls + 1
    /\ stack' = Popped
    /\ coord' = [coord EXCEPT !.step = "load_finish", !.since_load = 0]
    /\ UNCHANGED <<layout_vars, pending_calculation, switching_walls,
                   baseboard_timer, conv>>

\* the finally block of load_current_wall_data and its after_idle
LoadFinish ==
    /\ stack # <<>> /\ Top.f = "load"
    /\ calculation_in_progress' = Top.old
    /\ idle_calls' = idle_calls + 1
    /\ stack' = Popped
    /\ coord' = [coord EXCEPT !.step = "load_finish", !.since_load = 0]
    /\ UNCHANGED <<layout_vars, pending_calculation, switching_walls,
                   baseboard_timer, conv>>

\* on_wall_tab_change up to the lookup of the selected wall: the flag is
\* set and save_current_wall_data() calls calculate()
TabBegin ==
    /\ stack = <<>>
    /\ coord.events < MaxEvents /\ coord.loads < MaxLoads
    /\ switching_walls' = TRUE
    /\ CallCalculate(<<[f |-> "tab", pc |-> "select"]>>, TRUE, UserEvent(coord), Cur)
    /\ UNCHANGED <<layout_vars, idle_calls, baseboard_timer, conv>>

\* on_wall_tab_change: no wall has the name of the tab
TabNotFound ==
    /\ stack # <<>> /\ Top.f = "tab" /\ Top.pc = "select"
    /\ switching_walls' = FALSE
    /\ stack' = Popped
    /\ coord' = [coord EXCEPT !.step = "tab_not_found"]
    /\ UNCHANGED <<layout_vars, calculation_in_progress, pending_calculation,
                   idle_calls, baseboard_timer, conv>>

\* on_wall_tab_change: the wall is found and load_current_wall_data starts
TabLoad ==
    /\ stack # <<>> /\ Top.f = "tab" /\ Top.pc = "select"
    /\ LoadBegin(Append(Popped, [f |-> "tab", pc |-> "end"]), coord)
    /\ UNCHANGED <<layout_vars, switching_walls, baseboard_timer, conv>>

\* on_wall_tab_change after the load: the flag is cleared, then calculate()
TabEnd ==
    /\ stack # <<>> /\ Top.f = "tab" /\ Top.pc = "end"
    /\ switching_walls' = FALSE
    /\ CallCalculate(Popped, FALSE, coord, Cur)
    /\ UNCHANGED <<layout_vars, idle_calls, baseboard_timer, conv>>

CoordNext ==
    \/ on_calculate_button_click
    \/ CenterToggle
    \/ on_baseboard_change
    \/ BaseboardArm
    \/ TimerFires
    \/ RunIdle
    \/ CalcFinish
    \/ duplicate_wall
    \/ LoadFinish
    \/ TabBegin
    \/ TabNotFound
    \/ TabLoad
    \/ TabEnd

----------------------------------------------------------------------------
(* Properties of the coordinator                                           *)

CallSteps == {"call_deferred", "call_started", "call_skipped"}

\* C6: a call of calculate() made while calculation_in_progress is set sets
\* pending_calculation and starts no computation, and at no time are two
\* computations active.
C6_SingleFlight ==
    /\ [](ActiveCalcs <= 1)
    /\ [][(coord'.step \in CallSteps /\ calculation_in_progress)
             => (pending_calculation' /\ ActiveCalcs' = ActiveCalcs)]_vars

\* a call has just been deferred while a computation is running
C6_Witness == coord.step = "call_deferred" /\ ActiveCalcs = 1

\* C7: when a computation finishes after k >= 1 calls were deferred during
\* it, the pending flag is cleared and exactly one callback is queued; when
\* no call was deferred during it, none is queued.
C7_Coalescing ==
    [][coord'.step = "finish" =>
          /\ (coord.k >= 1 => (~ pending_calculation' /\ idle_calls' = idle_calls + 1))
          /\ (coord.k = 0 => idle_calls' = idle_calls)]_vars

\* a computation during which two calls were deferred has finished and
\* queued its single callback
C7_Witness ==
    /\ coord.step = "finish" /\ coord.k = 2
    /\ idle_calls = 1 /\ ~ pending_calculation

\* C8: no computation runs while load_current_wall_data is loading, and once
\* the load is over and everything it queued has run, exactly one
\* computation has run for it.
C8_BulkLoad ==
    /\ \A i \in 1..Len(stack) : \A j \in 1..Len(stack) :
          (i < j /\ stack[i].f = "load") => stack[j].f # "calc"
    /\ (stack = <<>> /\ idle_calls = 0 /\ ~ pending_calculation
          /\ coord.since_load >= 0) => coord.since_load = 1

LoadReturns == stack # <<>> /\ Top.f = "load" /\ stack' = Popped
ComputationReturns == stack # <<>> /\ Top.f = "calc" /\ stack' = Popped
IdleWhenNothingRuns ==
    stack = <<>> => (~ calculation_in_progress /\ ~ switching_walls)
TriggerFromIdle ==
    /\ stack = <<>>
    /\ coord'.step \in CallSteps
    /\ ~ switching_walls'

C29_GuardNeverSticks ==
    /\ [] IdleWhenNothingRuns
    /\ [][ComputationReturns => ~ calculation_in_progress']_vars
    /\ [][LoadReturns => calculation_in_progress' = Top.old]_vars
    /\ [][TriggerFromIdle => coord'.step = "call_started"]_vars

\* a load and a computation with a deferred call have both returned, and
\* nothing is executing
C29_Witness ==
    /\ stack = <<>>
    /\ coord.step = "finish"
    /\ coord.loads > 0
    /\ coord.served
    /\ ~ calculation_in_progress

----------------------------------------------------------------------------
(* The dimension round trip: a reading <<feet, inches, fraction>> of the   *)
(* entry fields is converted to inches and back.                           *)

MaxFeet == 1

ConvIdle == conv = [phase |-> "none"]

ConvInit ==
    \E feet \in 0..MaxFeet : \E inches \in 0..11 : \E i \in 1..16 :
        conv = [phase |-> "read", feet |-> feet, inches |-> inches,
                f |-> fraction_options[i]]

ToInches ==
    /\ conv.phase = "read"
    /\ conv' = [phase |-> "inches", feet |-> conv.feet, inches |-> conv.inches,
                f |-> conv.f,
                total |-> convert_to_inches(conv.feet, conv.inches, conv.f)]
    /\ UNCHANGED <<layout_vars, coord_vars>>

FromInches ==
    /\ conv.phase = "inches"
    /\ conv' = [phase |-> "back", feet |-> conv.feet, inches |-> conv.inches,
                f |-> conv.f,
                out |-> convert_to_feet_inches_fraction(conv.total)]
    /\ UNCHANGED <<layout_vars, coord_vars>>

ConvNext == ToInches \/ FromInches

SnapGrid == 64

SnapInit ==
    \E n \in 0..(12 * (MaxFeet + 1) * SnapGrid - 1) :
        conv = [phase |-> "measured", total |-> Rat(n, SnapGrid)]

Snap ==
    /\ conv.phase = "measured"
    /\ conv' = [phase |-> "snapped", total |-> conv.total,
                out |-> convert_to_feet_inches_fraction(conv.total)]
    /\ UNCHANGED <<layout_vars, coord_vars>>

SnapNext == Snap

(* C26: convert_to_feet_inches_fraction returns the sixteenth of an inch
   nearest to a non-negative inch count, the larger one at a tie, as feet,
   inches in 0..11 and a fraction below one inch: a fraction that rounds up
   to a whole inch is carried into the inches and 12 inches into the feet. *)
NearestSixteenth(t) == Rat(RFloor(RAdd(RMul(t, RInt(16)), Rat(1, 2))), 16)

C26_SnapNormalized ==
    conv.phase = "snapped" =>
        /\ conv.out[2] \in 0..11
        /\ \E i \in 1..16 : conv.out[3] = fraction_options[i]
        /\ convert_to_inches(conv.out[1], conv.out[2], conv.out[3])
              = NearestSixteenth(conv.total)

Init == LayoutInit /\ CoordInit /\ ConvIdle
Next == LayoutNext
Spec == Init /\ [][Next]_vars

CoordSpec == Init /\ [][CoordNext]_vars
\* the event loop runs every queued callback and a handler that has started
\* runs to its end
\* the computation on top of the stack returns: the step CalcFinish takes,
\* told by the stack alone
CalcReturns == stack # <<>> /\ Top.f = "calc" /\ stack' = Popped

\* the handler on the stack returns, and the Tk main loop runs its timers and
\* idle callbacks
MainLoopStep ==
    \/ RunIdle \/ TimerFires \/ LoadFinish
    \/ BaseboardArm \/ TabNotFound \/ TabLoad \/ TabEnd
CoordProgress == WF_vars(MainLoopStep) /\ WF_stack(CalcReturns)
FairCoordSpec == CoordSpec /\ CoordProgress
ConvStart == LayoutInit /\ CoordInit /\ ConvInit
ConvSpec == ConvStart /\ [][ConvNext]_vars

SnapStart == LayoutInit /\ CoordInit /\ SnapInit
SnapSpec == SnapStart /\ [][SnapNext]_vars

\* A wall whose second panel has been split: on_canvas_click on the second
\* panel of the new wall, then split_selected_panel.
SecondPanelClicked ==
    AfterCalculate([AfterCalculatePanels(LayoutStart)
                       EXCEPT !.selected = <<find_panel_at_position(LayoutStart, 60)>>])

SecondPanelSplit ==
    SplitState(AfterCalculatePanels(SecondPanelClicked),
               calculate_panels(SecondPanelClicked))

ResplitInit ==
    \E s \in {SecondPanelSplit} :
        /\ wall_width = s.wall_width
        /\ wall_height = s.wall_height
        /\ panel_width = s.panel_width
        /\ start_seam = s.start_seam
        /\ use_start_seam_var = s.use_start_seam
        /\ center_panels_var = s.center
        /\ equal_panels_var = s.equal
        /\ use_equal_panels = s.use_equal
        /\ wall_dimensions = s.dims
        /\ panel_count_var = s.panel_count
        /\ center_panel_count_var = s.center_count
        /\ custom_panel_widths = s.custom
        /\ split_panels = s.splits
        /\ selected_panels = s.selected
        /\ wall_panels = s.panels
        /\ wall_objects = s.objects
        /\ next_object_id = s.next_object_id
        /\ last_op = [op |-> "split", ok |-> TRUE, id |-> 2,
                      before |-> calculate_panels(SecondPanelClicked)]
        /\ edits = 0

\* the editing session continued from a wall with one split panel
ResplitStart == ResplitInit /\ CoordInit /\ ConvIdle
ResplitSpec == ResplitStart /\ [][LayoutNext]_vars

====
